---- MODULE Spec2Model ----
(***************************************************************************)
(* A model of the options pricing engine: the Black-Scholes pricer         *)
(* (src/black_scholes.py), the analytic and Monte Carlo Greeks             *)
(* (src/greeks.py), the Monte Carlo pricer and its convergence series      *)
(* (src/monte_carlo.py) and the hybrid Newton-Raphson / bisection          *)
(* implied-volatility solver (src/black_scholes.py).                       *)
(*                                                                         *)
(* Numbers.  The program computes in IEEE doubles; the model computes in   *)
(* decimal fixed point with nine fractional digits: a real x is the        *)
(* record [n |-> floor(x), f |-> (x - floor(x)) * 10^9], both fields       *)
(* inside 32 bits, so that the model's resolution is 10^-9 and its range   *)
(* +-2 * 10^9.  vega is kept in units of 10^-8 (the program's vega floor   *)
(* is then exactly 1) and simulated prices in thousandths.  A float NaN,   *)
(* a float infinity and a raised exception are explicit outcomes, never    *)
(* numbers.  The arithmetic is written as functions f[x \in Wide], so that *)
(* an argument is a value when the function is applied to it.              *)
(***************************************************************************)
EXTENDS Integers, Sequences, FiniteSets

\* ------------------------------------------------------------------------
\* Numbers
\* ------------------------------------------------------------------------

\* The resolution of the model: a number is kept to 10^-9.
FR == 1000 * 1000 * 1000

\* A number x is the record [n, f] with x = n + f / 10^9, n = floor(x).
Wide == [n : Int, f : 0..(FR - 1)]

W(n, f) == [n |-> n, f |-> f]

\* the integer k
WInt(k) == [n |-> k, f |-> 0]

\* floor(a / b) and a mod b for b > 0
FloorDiv[a \in Int, b \in Int] == a \div b

FloorMod[a \in Int, b \in Int] == a % b

\* k * 10^-9, k * 10^-6 and k * 10^-3 for an integer k
Nano(k) == [n |-> FloorDiv[k, FR], f |-> FloorMod[k, FR]]

Micro(k) == [n |-> FloorDiv[k, 1000000], f |-> FloorMod[k, 1000000] * 1000]

Milli(k) == [n |-> FloorDiv[k, 1000], f |-> FloorMod[k, 1000] * 1000000]

Neg[a \in Wide] == IF a.f = 0 THEN W(-a.n, 0) ELSE W(-a.n - 1, FR - a.f)

Add[a \in Wide, b \in Wide] ==
    IF a.f + b.f >= FR THEN W(a.n + b.n + 1, a.f + b.f - FR)
    ELSE W(a.n + b.n, a.f + b.f)

Sub[a \in Wide, b \in Wide] == Add[a, Neg[b]]

\* a < b, a <= b
Lt[a \in Wide, b \in Wide] == a.n < b.n \/ (a.n = b.n /\ a.f < b.f)

Le[a \in Wide, b \in Wide] == a.n < b.n \/ (a.n = b.n /\ a.f <= b.f)

IsNeg[a \in Wide] == a.n < 0

IsZero[a \in Wide] == a.n = 0 /\ a.f = 0

Abs[a \in Wide] == IF a.n < 0 THEN Neg[a] ELSE a

Max[a \in Wide, b \in Wide] == IF Lt[a, b] THEN b ELSE a

Min[a \in Wide, b \in Wide] == IF Lt[b, a] THEN b ELSE a

\* k * g / 10^9 for an integer 0 <= k < 10^6 and a fraction g
SmallIntFrac[k \in Int, g \in Int] ==
    LET t2 == k * (g \div 1000000)
        t1 == k * ((g \div 1000) % 1000)
        t0 == k * (g % 1000)
        lo == (t1 % 1000000) * 1000 + t0
        hi == (t2 % 1000) * 1000000 + (lo % FR)
    IN  W((t2 \div 1000) + (t1 \div 1000000) + (lo \div FR) + (hi \div FR), hi % FR)

\* a * 10^6
TimesMillion[a \in Wide] == W(a.n * 1000000 + (a.f \div 1000), (a.f % 1000) * 1000000)

\* k * g / 10^9 for an integer k and a fraction g, six digits of k at a time
IntFrac[k \in Int, g \in Int] ==
    IF k = -1 THEN Neg[W(0, g)]
    ELSE Add[SmallIntFrac[k % 1000000, g],
             IF k \div 1000000 = 0 THEN WInt(0)
             ELSE TimesMillion[IntFrac[k \div 1000000, g]]]

\* f * g / 10^9 for two fractions, to the last digit but a few units
FracFrac[f \in Int, g \in Int] ==
    LET a2 == f \div 1000000
        a1 == (f \div 1000) % 1000
        a0 == f % 1000
        b2 == g \div 1000000
        b1 == (g \div 1000) % 1000
        b0 == g % 1000
    IN  a2 * b2 * 1000 + a2 * b1 + a1 * b2
        + ((a2 * b0 + a1 * b1 + a0 * b2 + ((a1 * b0 + a0 * b1) \div 1000) + 500) \div 1000)

\* a * b: with a = a.n + a.f / 10^9 and b likewise, the four products
Mul[a \in Wide, b \in Wide] ==
    Add[Add[W(a.n * b.n, FracFrac[a.f, b.f]), IntFrac[a.n, b.f]], IntFrac[b.n, a.f]]

\* a * k for an integer k
MulInt[a \in Wide, k \in Int] == Add[WInt(a.n * k), IntFrac[k, a.f]]

\* (r * 10^9 + g) / k for 0 <= r < k < 2 * 10^6 and a fraction g: the
\* fraction of a quotient whose remainder so far is r
FracDivInt[r \in Int, g \in Int, k \in Int] ==
    LET r2 == r * 1000 + (g \div 1000000)
        r1 == (r2 % k) * 1000 + ((g \div 1000) % 1000)
        r0 == (r1 % k) * 1000 + (g % 1000)
    IN  (r2 \div k) * 1000000 + (r1 \div k) * 1000 + (r0 \div k)

\* floor(a / k) in units of 10^-9, for an integer 0 < k < 2 * 10^6
DivIntFloor[a \in Wide, k \in Int] == W(a.n \div k, FracDivInt[a.n % k, a.f, k])

\* a / k for an integer 0 < k < 2 * 10^6, rounded to nearest
DivInt[a \in Wide, k \in Int] == DivIntFloor[Add[a, Nano(k \div 2)], k]

\* q * 10^d + floor(r * 10^d / b) for 0 <= r < b < 2 * 10^8: long division
LongDiv[r \in Int, b \in Int, d \in Int, q \in Int] ==
    IF d = 0 THEN q
    ELSE LongDiv[(r * 10) % b, b, d - 1, q * 10 + ((r * 10) \div b)]

\* a / b for integers a >= 0 and 0 < b < 2 * 10^8
IntDiv[a \in Int, b \in Int] == W(a \div b, LongDiv[a % b, b, 9, 0])

\* 1 / b for b >= 0.1, to the leading digits of b
RecipGuess[b \in Wide] ==
    IF b.n >= 100000 THEN IntDiv[1, b.n]
    ELSE IF b.n >= 100 THEN IntDiv[1000, b.n * 1000 + (b.f \div 1000000)]
    ELSE IntDiv[1000000, b.n * 1000000 + (b.f \div 1000)]

\* one Newton step for 1 / b: y + y * (1 - b * y)
RecipStep[b \in Wide, y \in Wide] == Add[y, Mul[y, Sub[WInt(1), Mul[b, y]]]]

\* n Newton steps for 1 / b from y
RecipIter[b \in Wide, y \in Wide, n \in Nat] ==
    IF n = 0 THEN y ELSE RecipIter[b, RecipStep[b, y], n - 1]

\* 1 / b for b > 0: below 0.1 the digits of b are an integer that long
\* division divides exactly
Recip[b \in Wide] ==
    IF b.n = 0 /\ b.f < 100000000 THEN IntDiv[FR, b.f]
    ELSE RecipIter[b, RecipGuess[b], 2]

\* the k with b / 1000^k < 1000, for b >= 0
Thousands[b \in Wide] ==
    IF b.n < 1000 THEN 0 ELSE IF b.n < 1000000 THEN 1
    ELSE IF b.n < 1000000000 THEN 2 ELSE 3

\* a / 1000^k
ShrinkBy[a \in Wide, k \in Nat] ==
    IF k = 0 THEN a ELSE ShrinkBy[DivInt[a, 1000], k - 1]

\* the quotient q of a / b corrected by its remainder when b >= 1:
\* q + (a - q * b) * y / 1000^k, y = 1000^k / b
DivRefine[a \in Wide, b \in Wide, y \in Wide, k \in Nat, q \in Wide] ==
    IF b.n = 0 THEN q ELSE Add[q, Mul[ShrinkBy[Sub[a, Mul[q, b]], k], y]]

\* a / b as (a / 1000^k) * y for y = 1000^k / b, corrected once
DivBy[a \in Wide, b \in Wide, y \in Wide, k \in Nat] ==
    DivRefine[a, b, y, k, Mul[ShrinkBy[a, k], y]]

\* a / b for b > 0: a divisor of 1000 and more is brought below 1000
\* before its reciprocal is taken, so that the reciprocal keeps its digits
DivPos[a \in Wide, b \in Wide] ==
    DivBy[a, b, Recip[ShrinkBy[b, Thousands[b]]], Thousands[b]]

\* a / b for b # 0
Div[a \in Wide, b \in Wide] == DivPos[IF IsNeg[b] THEN Neg[a] ELSE a, Abs[b]]

\* the greatest integer y in lo..hi with y * y <= t
SqrtSearch[t \in Int, lo \in Int, hi \in Int] ==
    IF lo >= hi THEN lo
    ELSE IF ((lo + hi + 1) \div 2) * ((lo + hi + 1) \div 2) <= t
         THEN SqrtSearch[t, (lo + hi + 1) \div 2, hi]
         ELSE SqrtSearch[t, lo, (lo + hi + 1) \div 2 - 1]

\* sqrt(t) for t >= 0, to its leading digits
SqrtGuess[t \in Wide] ==
    IF t.n >= 2000 THEN WInt(SqrtSearch[t.n, 0, 46340])
    ELSE IF t.n > 0 THEN Milli(SqrtSearch[t.n * 1000000 + (t.f \div 1000), 0, 46340])
    ELSE IF t.f >= 100000000 THEN W(0, SqrtSearch[t.f \div 10, 0, 46340] * 100000)
    ELSE W(0, SqrtSearch[t.f * 10, 0, 46340] * 10000)

\* one step of Heron's method: (y + t / y) / 2
SqrtStep[t \in Wide, y \in Wide] == DivInt[Add[y, Div[t, y]], 2]

\* n steps of Heron's method from y; zero stays zero
SqrtIter[t \in Wide, y \in Wide, n \in Nat] ==
    IF n = 0 \/ IsZero[y] THEN y ELSE SqrtIter[t, SqrtStep[t, y], n - 1]

\* math.sqrt / np.sqrt for t >= 0
Sqrt[t \in Wide] == SqrtIter[t, SqrtGuess[t], 3]

\* ln 2 = 0.693147180 + 559945 * 10^-15
LN2 == Nano(693147180)

LN2Low == 559945

\* k * ln 2
TimesLn2[k \in Int] == Add[MulInt[LN2, k], Nano(FloorDiv[k * LN2Low, 1000000])]

Pow2[k \in Int] == IF k = 0 THEN 1 ELSE 2 * Pow2[k - 1]

\* sum of r^j / j! from j = n - 1 on, term = r^(n-1) / (n-1)!
ExpSeries[r \in Wide, term \in Wide, n \in Int, acc \in Wide] ==
    IF IsZero[term] \/ n > 14 THEN acc
    ELSE ExpSeries[r, DivInt[Mul[term, r], n], n + 1, Add[acc, term]]

\* the k with |x - k ln 2| <= ln 2 / 2 (nearly), from x in thousandths
ExpShift[x \in Wide] == FloorDiv[2 * (x.n * 1000 + (x.f \div 1000000)) + 693, 1386]

\* a * 2^k for k > 0, a otherwise
ScaleUp[a \in Wide, k \in Int] == IF k > 0 THEN MulInt[a, Pow2[k]] ELSE a

\* a / 2^k for k > 0, twenty halvings at a time; a otherwise
ScaleDown[a \in Wide, k \in Int] ==
    IF k <= 0 THEN a
    ELSE ScaleDown[DivInt[a, Pow2[IF k < 20 THEN k ELSE 20]], k - 20]

\* a * e^x for a >= 0 and x = k ln 2 + r: the series of e^r starts from
\* a * 2^k when k >= 0 and its sum is halved -k times when k < 0
ExpShifted[a \in Wide, x \in Wide, k \in Int] ==
    ScaleDown[ExpSeries[Sub[x, TimesLn2[k]], ScaleUp[a, k], 1, WInt(0)], -k]

\* a * e^x for a >= 0; below e^-44 the product is under the model's
\* resolution for every a the model holds
ExpMul[a \in Wide, x \in Wide] ==
    IF x.n < -44 THEN WInt(0) ELSE ExpShifted[a, x, ExpShift[x]]

\* math.exp / np.exp
Exp[x \in Wide] == ExpMul[WInt(1), x]

\* z + z^3/3 + z^5/5 + ... = atanh(z), t = z^n
AtanhSeries[t \in Wide, z2 \in Wide, n \in Int, acc \in Wide] ==
    IF IsZero[t] \/ n > 15 THEN acc
    ELSE AtanhSeries[Mul[t, z2], z2, n + 2, Add[acc, DivInt[t, n]]]

\* 2 atanh(z)
TwoAtanh[z \in Wide] == MulInt[AtanhSeries[z, Mul[z, z], 1, WInt(0)], 2]

\* ln(x * 2^k) for x > 0: x is brought into [0.75, 1.5), where
\* ln x = 2 atanh((x - 1) / (x + 1))
LnReduce[x \in Wide, k \in Int] ==
    IF Le[Micro(1500000), x] THEN LnReduce[DivInt[x, 2], k + 1]
    ELSE IF Lt[x, Micro(750000)] THEN LnReduce[Add[x, x], k - 1]
    ELSE Add[TimesLn2[k], TwoAtanh[Div[Sub[x, WInt(1)], Add[x, WInt(1)]]]]

\* math.log / np.log, for x > 0
Ln[x \in Wide] == LnReduce[x, 0]

\* 1 / sqrt(2 pi)
INV_SQRT_2PI == Nano(398942280)

\* |x| from which norm.pdf(x) is 0 and norm.cdf(x) is 0 or 1, in doubles
\* (exp underflows) as at the model's resolution
DSat == 40

\* a * norm.pdf(x) for a >= 0
PdfMul[a \in Wide, x \in Wide] ==
    IF Abs[x].n >= DSat THEN WInt(0)
    ELSE ExpMul[Mul[a, INV_SQRT_2PI], Neg[DivInt[Mul[x, x], 2]]]

\* norm.pdf
Pdf[x \in Wide] == PdfMul[WInt(1), x]

\* (1 - cdf(x)) / pdf(x) for x >= 0 as a Chebyshev series in
\* u = 2 / (1 + MillsP * x) - 1, coefficients in units of 10^-9
MillsCoef ==
    <<821910926, 566826273, 202752180, 57822054, 12785729, 2020132, 168535,
      -11145, -4940, -260, 104, 14, -2, -1>>

\* 0.2316419
MillsP == Nano(231641900)

\* one step of Clenshaw's recurrence, u2 = 2 u: u2 * d - dd + c
ClenshawStep[u2 \in Wide, c \in Int, d \in Wide, dd \in Wide] ==
    Add[Sub[Mul[u2, d], dd], Nano(c)]

\* Clenshaw's recurrence for the series from coefficient k down; the sum
\* is half the difference of the last step and the one two before it
Clenshaw[u2 \in Wide, k \in Int, d \in Wide, dd \in Wide, ddd \in Wide] ==
    IF k = 0 THEN DivInt[Sub[d, ddd], 2]
    ELSE Clenshaw[u2, k - 1, ClenshawStep[u2, MillsCoef[k], d, dd], d, dd]

Mills[x \in Wide] ==
    Clenshaw[Sub[Div[WInt(4), Add[WInt(1), Mul[MillsP, x]]], WInt(2)],
             Len(MillsCoef), WInt(0), WInt(0), WInt(0)]

\* 1 - norm.cdf(x) for 0 <= x < DSat
CdfTail[x \in Wide] == Mul[Pdf[x], Mills[x]]

\* norm.cdf(x) from the tail beyond |x|
CdfFromTail[x \in Wide, tail \in Wide] ==
    IF IsNeg[x] THEN tail ELSE Sub[WInt(1), tail]

\* norm.cdf
Cdf[x \in Wide] ==
    IF Abs[x].n >= DSat THEN (IF IsNeg[x] THEN WInt(0) ELSE WInt(1))
    ELSE CdfFromTail[x, CdfTail[Abs[x]]]

\* ------------------------------------------------------------------------
\* Floats that are not numbers, and the outcomes of a call
\* ------------------------------------------------------------------------

FNum(v) == [k |-> "num", v |-> v]

FNaN == [k |-> "nan", v |-> WInt(0)]

\* s = 1: +inf, s = -1: -inf
FInf(s) == [k |-> "inf", v |-> WInt(s)]

\* Python's None
FNone == [k |-> "none", v |-> WInt(0)]

Returned(val) == [kind |-> "return", val |-> val, exc |-> "none"]

Raised(exc) == [kind |-> "raise", val |-> FNone, exc |-> exc]

Pending == [kind |-> "pending", val |-> FNone, exc |-> "none"]

\* the floats, and the outcomes of a call that returns a float
Float == [k : {"num", "nan", "inf", "none"}, v : Wide]

FloatOutcome == [kind : {"return", "raise", "pending"}, val : Float, exc : STRING]

\* str.lower() on the option kinds the model passes
Lower(s) ==
    CASE s = "Call" -> "call"
      [] s = "PUT" -> "put"
      [] OTHER -> s

\* ------------------------------------------------------------------------
\* Black-Scholes pricer (src/black_scholes.py) and d_1, d_2 (src/greeks.py)
\* ------------------------------------------------------------------------

\* the numerator of d1: log(S/K) + (r - q + 0.5 * sigma ** 2) * T
D1Num(S, K, T, r, sigma, q) ==
    Add[Ln[Div[S, K]], Mul[Add[Sub[r, q], DivInt[Mul[sigma, sigma], 2]], T]]

\* numerator / (sigma * sqrt(T)) for sigma * sqrt(T) # 0, divided by one
\* factor after the other so that a small sigma * sqrt(T) keeps its digits
D1Quot(num, sigma, sqrtT) == Div[Div[num, sigma], sqrtT]

\* greeks.d_1: Python floats, a zero divisor raises ZeroDivisionError
d_1(S, K, T, r, sigma, q) ==
    IF IsZero[sigma] \/ IsZero[Sqrt[T]] THEN Raised("ZeroDivisionError")
    ELSE Returned(FNum(D1Quot(D1Num(S, K, T, r, sigma, q), sigma, Sqrt[T])))

\* d1 - x, when computing d1 raised nothing
MinusVol[d1 \in FloatOutcome, x \in Wide] ==
    IF d1.kind = "raise" THEN d1 ELSE Returned(FNum(Sub[d1.val.v, x]))

\* greeks.d_2: d_1(...) - sigma * math.sqrt(T)
d_2(S, K, T, r, sigma, q) ==
    MinusVol[d_1(S, K, T, r, sigma, q), Mul[sigma, Sqrt[T]]]

\* numerator / (sigma * sqrt(T)) in numpy floats: x / 0 is +-inf and
\* 0 / 0 is nan
NpDivide[num \in Wide, sigma \in Wide, sqrtT \in Wide] ==
    IF IsZero[sigma] \/ IsZero[sqrtT]
    THEN (IF IsZero[num] THEN FNaN ELSE FInf(IF IsNeg[num] THEN -1 ELSE 1))
    ELSE FNum(D1Quot(num, sigma, sqrtT))

\* d1 of bs_pricing: numpy floats
NpD1(S, K, T, r, sigma, q) == NpDivide[D1Num(S, K, T, r, sigma, q), sigma, Sqrt[T]]

\* d2 = d1 - vol, vol = sigma * np.sqrt(T)
NpD2[d1 \in Float, vol \in Wide] ==
    IF d1.k = "num" THEN FNum(Sub[d1.v, vol]) ELSE d1

\* norm.cdf(sign * d) of a numpy float
NpCdf[d \in Float, sign \in {-1, 1}] ==
    CASE d.k = "num" -> FNum(Cdf[IF sign = 1 THEN d.v ELSE Neg[d.v]])
      [] d.k = "inf" -> FNum(IF sign * d.v.n > 0 THEN WInt(1) ELSE WInt(0))
      [] OTHER -> FNaN

\* a * x - b * y on numpy floats (a, b finite)
NpCombine(a, x, b, y) ==
    IF x.k = "num" /\ y.k = "num" THEN FNum(Sub[Mul[a, x.v], Mul[b, y.v]])
    ELSE FNaN

\* the price from its discounted spot Sq and strike Kr and from
\* c1 = norm.cdf(+-d1), c2 = norm.cdf(+-d2), + for a call and - for a put
BsCombine[Sq, Kr \in Wide, kind \in STRING, c1, c2 \in Float] ==
    IF kind = "call" THEN NpCombine(Sq, c1, Kr, c2) ELSE NpCombine(Kr, c2, Sq, c1)

\* the two terms of the formula, from d1: S * exp(-q * T) and
\* K * exp(-r * T) against the normal cdf at +-d1 and +-d2
BsTerms[S, K, T, r, sigma, q \in Wide, kind \in STRING, d1 \in Float] ==
    BsCombine[ExpMul[S, Neg[Mul[q, T]]], ExpMul[K, Neg[Mul[r, T]]], kind,
              NpCdf[d1, IF kind = "call" THEN 1 ELSE -1],
              NpCdf[NpD2[d1, Mul[sigma, Sqrt[T]]], IF kind = "call" THEN 1 ELSE -1]]

\* bs_pricing without the branch on the option kind
BsFormula(S, K, T, r, sigma, kind, q) ==
    BsTerms[S, K, T, r, sigma, q, kind, NpD1(S, K, T, r, sigma, q)]

\* an option kind that is neither branch leaves bs_price unbound
bs_pricing(S, K, T, r, sigma, option_type, q) ==
    IF Lower(option_type) = "call" \/ Lower(option_type) = "put"
    THEN Returned(BsFormula(S, K, T, r, sigma, Lower(option_type), q))
    ELSE Raised("UnboundLocalError")

\* ------------------------------------------------------------------------
\* Analytic Greeks (src/greeks.py)
\* ------------------------------------------------------------------------

\* x / (a * b * c) for a, b, c > 0, one factor after the other
Quot3(x, a, b, c) == Div[Div[Div[x, a], b], c]

\* vega in units of 10^-8:
\*   S * exp(-q * T) * norm.pdf(d1) * sqrt(T) / 100
\* the factors of the pdf are multiplied before exp scales the product down,
\* so that a vega near the floor keeps its digits
Vega8(S, T, q, d1) ==
    PdfMul[MulInt[Mul[ExpMul[S, Neg[Mul[q, T]]], Sqrt[T]], 1000000], d1]

\* the dictionary bs_greeks builds from eq = exp(-q * T), er = exp(-r * T),
\* sqrt(T), pdf1 = norm.pdf(d1), the normal cdf at d1, d2, -d1 and -d2,
\* and vega
GreeksParts[kind \in STRING, S, K, T, r, sigma, q, eq, er, sqrtT, pdf1, cdf1, cdf2, cdfn1, cdfn2, vega \in Wide] ==
    [delta |-> IF kind = "call" THEN Mul[eq, cdf1]
               ELSE Mul[eq, Sub[cdf1, WInt(1)]],
     gamma |-> Quot3(Mul[eq, pdf1], S, sigma, sqrtT),
     theta |-> Neg[Add[Div[Mul[Mul[Mul[S, pdf1], sigma], eq], MulInt[sqrtT, 2]],
                       IF kind = "call"
                       THEN Sub[Mul[Mul[Mul[q, S], cdf1], eq],
                                Mul[Mul[Mul[r, K], er], cdf2]]
                       ELSE Sub[Mul[Mul[Mul[r, K], er], cdfn2],
                                Mul[Mul[Mul[q, S], cdfn1], eq]]]],
     vega |-> vega,
     rho |-> IF kind = "call" THEN Mul[Mul[Mul[K, T], er], cdf2]
             ELSE Neg[Mul[Mul[Mul[K, T], er], cdfn2]]]

\* the dictionary bs_greeks builds, for d1, d2 and a valid kind; vega in
\* units of 10^-8
GreeksDict[kind \in STRING, S, K, T, r, sigma, q, d1, d2 \in Wide] ==
    GreeksParts[kind, S, K, T, r, sigma, q, Exp[Neg[Mul[q, T]]],
                Exp[Neg[Mul[r, T]]], Sqrt[T], Pdf[d1], Cdf[d1], Cdf[d2],
                Cdf[Neg[d1]], Cdf[Neg[d2]], Vega8(S, T, q, d1)]

\* what bs_greeks raises: every branch calls d_1 first (ZeroDivisionError);
\* an option kind that is neither branch skips to gamma and vega, and the
\* dictionary then reads the unbound delta
bs_greeks_exc(S, K, T, r, sigma, option_type, q) ==
    IF IsZero[sigma] \/ IsZero[Sqrt[T]] THEN "ZeroDivisionError"
    ELSE IF Lower(option_type) \notin {"call", "put"} THEN "UnboundLocalError"
    ELSE "none"

\* bs_greeks(...)["vega"], when bs_greeks raises nothing
bs_vega(S, K, T, r, sigma, q) ==
    Vega8(S, T, q, d_1(S, K, T, r, sigma, q).val.v)

bs_greeks(S, K, T, r, sigma, option_type, q) ==
    IF bs_greeks_exc(S, K, T, r, sigma, option_type, q) # "none"
    THEN Raised(bs_greeks_exc(S, K, T, r, sigma, option_type, q))
    ELSE Returned(GreeksDict[Lower(option_type), S, K, T, r, sigma, q,
                             d_1(S, K, T, r, sigma, q).val.v,
                             d_2(S, K, T, r, sigma, q).val.v])

\* ------------------------------------------------------------------------
\* Monte Carlo pricer and Greeks (src/monte_carlo.py, src/greeks.py)
\* ------------------------------------------------------------------------

\* The shared random source is an endless stream of standard-normal
\* variates, its state the number of variates consumed so far; the stream
\* repeats this table.
NormalTable ==
    <<Micro(-1200000), Micro(300000), Micro(1500000), Micro(-400000),
      Micro(800000), Micro(-2000000), Micro(0)>>

\* np.random.standard_normal(n) with the source at position pos
standard_normal(pos, n) ==
    [j \in 1..n |-> NormalTable[((pos + j - 1) % Len(NormalTable)) + 1]]

SeqSum[xs \in Seq(Wide)] ==
    IF xs = <<>> THEN WInt(0) ELSE Add[Head(xs), SeqSum[Tail(xs)]]

\* np.mean of a non-empty array
Mean[xs \in Seq(Wide)] == DivInt[SeqSum[xs], Len(xs)]

\* Simulated prices and payoffs are carried in thousandths (a price x is
\* the number 1000 x), so that the finite differences of gamma and theta
\* keep their digits.
Thousandths(x) == MulInt[x, 1000]

FromThousandths(x) == DivInt[x, 1000]

\* S * exp((r - q - 0.5 * sigma ** 2) * T + sigma * sqrt(T) * Z), per path,
\* in thousandths
TerminalPrices(S, T, r, sigma, q, Z) ==
    [j \in 1..Len(Z) |->
        ExpMul[Thousandths(S),
               Add[Mul[Sub[Sub[r, q], DivInt[Mul[sigma, sigma], 2]], T],
                   Mul[Mul[sigma, Sqrt[T]], Z[j]]]]]

\* np.maximum(final - K, 0) for a call, np.maximum(K - final, 0) for a put,
\* in thousandths
Payoff[final \in Seq(Wide), K \in Wide, kind \in STRING] ==
    [j \in 1..Len(final) |->
        IF kind = "call" THEN Max[Sub[final[j], Thousandths(K)], WInt(0)]
        ELSE Max[Sub[Thousandths(K), final[j]], WInt(0)]]

\* exp(-r * T) * mean(payoff) of the paths that start at S and run for T,
\* in thousandths
DiscountedPayoff(S, K, T, r, sigma, kind, q, Z) ==
    ExpMul[Mean[Payoff[TerminalPrices(S, T, r, sigma, q, Z), K, kind]], Neg[Mul[r, T]]]

\* mc_pricing on the sample Z it drew; an option kind that is neither
\* branch leaves option_payoff unbound
mc_pricing(S, K, T, r, sigma, option_type, q, Z) ==
    IF Lower(option_type) \in {"call", "put"}
    THEN Returned(FNum(FromThousandths(
             DiscountedPayoff(S, K, T, r, sigma, Lower(option_type), q, Z))))
    ELSE Raised("UnboundLocalError")

\* float(price) of a numpy float: the same value as a Python float
PyFloat(x) == x

\* the pathwise estimators of mc_greeks from the terminal prices (in
\* thousandths), er = exp(-r * T) and sqrt(T)
PathwiseFrom[final, Z \in Seq(Wide), S, K, T, er, sqrtT \in Wide, kind \in STRING] ==
    LET itm(j) == IF kind = "call" THEN Lt[Thousandths(K), final[j]]
                  ELSE Lt[final[j], Thousandths(K)]
        signed(x) == IF kind = "call" THEN x ELSE Neg[x]
        each(f(_)) == [j \in 1..Len(Z) |-> IF itm(j) THEN signed(f(j)) ELSE WInt(0)]
        dS(j) == Div[final[j], S]
        dV(j) == Mul[Mul[final[j], sqrtT], Z[j]]
        dR(j) == Mul[final[j], T]
    IN  [delta |-> FromThousandths(Mul[er, Mean[each(dS)]]),
         vega |-> DivInt[FromThousandths(Mul[er, Mean[each(dV)]]), 100],
         rho |-> FromThousandths(Mul[er, Mean[each(dR)]])]

\* the pathwise estimators of mc_greeks
PathwiseGreeks(S, K, T, r, sigma, kind, q, Z) ==
    PathwiseFrom[TerminalPrices(S, T, r, sigma, q, Z), Z, S, K, T,
                 Exp[Neg[Mul[r, T]]], Sqrt[T], kind]

\* 1e-8, the floor of T - dt
TimeFloor == Nano(10)

\* (option_price_up - 2 * option_price + option_price_down) / h ** 2, the
\* prices in thousandths; divided by one factor after the other
GammaEstimate(S, K, T, r, sigma, kind, q, Z, h, option_price) ==
    FromThousandths(
        Div[Div[Add[Sub[DiscountedPayoff(Add[S, h], K, T, r, sigma, kind, q, Z),
                        MulInt[option_price, 2]],
                    DiscountedPayoff(Sub[S, h], K, T, r, sigma, kind, q, Z)],
                h], h])

\* (price_dt - option_price) / dt, with time_dt = max(T - dt, 1e-8), the
\* prices in thousandths
ThetaEstimate(S, K, T, r, sigma, kind, q, Z, dt, option_price) ==
    FromThousandths(
        Div[Sub[DiscountedPayoff(S, K, Max[Sub[T, dt], TimeFloor], r, sigma, kind, q, Z),
                option_price], dt])

\* ------------------------------------------------------------------------
\* The calls: one public operation per behaviour, run to its outcome
\* ------------------------------------------------------------------------

VARIABLES
    op,              \* the public operation called
    args,            \* its arguments
    pc,              \* the position in its code
    result,          \* its outcome: pending, returned or raised
    sigma,           \* implied_volatility: the Newton iterate
    low, high,       \* implied_volatility: the bisection interval
    tolerance_price, \* implied_volatility: the bisection tolerance
    i,               \* implied_volatility: the loop index of the running phase
    hist,            \* implied_volatility: what the search has done so far
    rng,             \* the shared random source: variates consumed so far
    Z,               \* the sample the running Monte Carlo call drew
    mc               \* Monte Carlo locals, the position pos0 of the source
                     \* when the call started and the record of the draws made

vars == <<op, args, pc, result, sigma, low, high, tolerance_price, i, hist,
          rng, Z, mc>>

ivVars == <<sigma, low, high, tolerance_price, i, hist>>

mcVars == <<rng, Z, mc>>

\* sigma = 0.3, the Newton start
SigmaStart == Micro(300000)

\* 1e-6, the lower end of the search domain
SigmaMin == Micro(1)

\* 5.0, the upper end of the search domain
SigmaMax == WInt(5)

\* vega < 1e-8, in vega's units of 10^-8
VegaFloor == WInt(1)

\* the default of max_iter
DefaultMaxIter == 100

\* the default of error_tolerance, 1e-4
DefaultTolerance == Micro(100)

\* error_tolerance * max(1.0, market_price)
Threshold(error_tolerance, market_price) ==
    Mul[error_tolerance, Max[WInt(1), market_price]]

\* Converged with the abs() forgotten
ConvergedNoAbs(price, market_price, error_tolerance) ==
    /\ price.k = "num"
    /\ Lt[Sub[price.v, market_price], Threshold(error_tolerance, market_price)]

\* abs(difference) < error_tolerance * max(1.0, market_price); a NaN
\* compares False
Converged(price, market_price, error_tolerance) ==
    /\ price.k = "num"
    /\ Lt[Abs[Sub[price.v, market_price]], Threshold(error_tolerance, market_price)]

\* |difference / vega| for difference >= 0 and vega (in units of 10^-8) at
\* or above the floor.  A quotient of at least 5.0, the width of the search
\* domain, is clamped whatever its digits are, and 5.0 stands for it; a
\* smaller one is divided out, the dividend scaled up first so that it
\* keeps its digits
StepSize[difference \in Wide, vega \in Wide] ==
    IF Le[Mul[Mul[vega, SigmaMax], Nano(10)], difference] THEN SigmaMax
    ELSE IF vega.n < 10000 THEN Div[MulInt[MulInt[difference, 10000], 10000], vega]
    ELSE Div[MulInt[difference, 10000], DivInt[vega, 10000]]

\* difference / vega
NewtonStep[difference \in Wide, vega \in Wide] ==
    IF IsNeg[difference] THEN Neg[StepSize[Neg[difference], vega]]
    ELSE StepSize[difference, vega]

\* NewtonUpdate with the clamp left out
NewtonUpdateNoClamp(s, difference, vega) == Sub[s, NewtonStep[difference, vega]]

\* sigma -= difference / vega; sigma = max(min(sigma, 5.0), 1e-6)
NewtonUpdate(s, difference, vega) ==
    Max[Min[Sub[s, NewtonStep[difference, vega]], SigmaMax], SigmaMin]

\* what the search has done: pricer evaluations and completed iterations
\* per phase, how the Newton phase ended, the vega of the last Newton
\* division (-1: none yet), the smallest |price - market_price| seen
\* (-1: none yet) and the iterate the Newton phase was left at
NoHist == [newton |-> 0, bisect |-> 0, newtonEnd |-> "none",
           divVega |-> WInt(-1), minGap |-> WInt(-1), lastNewton |-> WInt(0)]

Gap(g, price, market_price) ==
    IF price.k # "num" THEN g
    ELSE IF IsNeg[g] THEN Abs[Sub[price.v, market_price]]
    ELSE Min[g, Abs[Sub[price.v, market_price]]]

\* option_price in thousandths
NoMc == [draws |-> 0, pos0 |-> 0, k |-> 0, prices |-> <<>>, calls |-> <<>>,
         option_price |-> WInt(0),
         pathwise |-> [delta |-> WInt(0), vega |-> WInt(0), rho |-> WInt(0)],
         gamma |-> WInt(0)]

Finish(out) == pc' = "done" /\ result' = out

\* ---- bs_pricing, bs_greeks, mc_pricing: one step each

CallBsPricing ==
    /\ pc = "start" /\ op = "bs_pricing"
    /\ Finish(bs_pricing(args.S, args.K, args.T, args.r, args.sigma,
                         args.option_type, args.q))
    /\ UNCHANGED <<op, args, ivVars, mcVars>>

CallBsGreeks ==
    /\ pc = "start" /\ op = "bs_greeks"
    /\ Finish(bs_greeks(args.S, args.K, args.T, args.r, args.sigma,
                        args.option_type, args.q))
    /\ UNCHANGED <<op, args, ivVars, mcVars>>

\* the draw comes first, whatever the option kind
CallMcPricing ==
    /\ pc = "start" /\ op = "mc_pricing"
    /\ Z' = standard_normal(rng, args.n)
    /\ rng' = rng + args.n
    /\ mc' = [mc EXCEPT !.draws = 1]
    /\ Finish(mc_pricing(args.S, args.K, args.T, args.r, args.sigma,
                         args.option_type, args.q, Z'))
    /\ UNCHANGED <<op, args, ivVars>>

\* ---- mc_convergence: one mc_pricing call per element of n_values

ConvergenceStart ==
    /\ pc = "start" /\ op = "mc_convergence"
    /\ pc' = "conv_loop"
    /\ mc' = [mc EXCEPT !.k = 0, !.prices = <<>>]
    /\ UNCHANGED <<op, args, result, ivVars, rng, Z>>

\* ConvergenceStep putting each new price in front of the list
ConvergenceStepPrepend ==
    /\ pc = "conv_loop" /\ mc.k < Len(args.n_values)
    /\ \E sim_num \in {args.n_values[mc.k + 1]} :
       \E sample \in {standard_normal(rng, sim_num)} :
       \E price \in {mc_pricing(args.S, args.K, args.T, args.r, args.sigma,
                                args.option_type, args.q, sample)} :
           /\ Z' = sample
           /\ rng' = rng + sim_num
           /\ IF price.kind = "raise"
              THEN /\ Finish(price)
                   /\ mc' = [mc EXCEPT !.draws = @ + 1,
                                       !.calls = Append(@, [n |-> sim_num, pos |-> rng, out |-> price])]
              ELSE /\ mc' = [mc EXCEPT !.draws = @ + 1, !.k = @ + 1,
                                       !.prices = <<PyFloat(price.val)>> \o @,
                                       !.calls = Append(@, [n |-> sim_num, pos |-> rng, out |-> price])]
                   /\ UNCHANGED <<pc, result>>
    /\ UNCHANGED <<op, args, ivVars>>

ConvergenceStep ==
    /\ pc = "conv_loop" /\ mc.k < Len(args.n_values)
    /\ \E sim_num \in {args.n_values[mc.k + 1]} :
       \E sample \in {standard_normal(rng, sim_num)} :
       \E price \in {mc_pricing(args.S, args.K, args.T, args.r, args.sigma,
                                args.option_type, args.q, sample)} :
           /\ Z' = sample
           /\ rng' = rng + sim_num
           /\ IF price.kind = "raise"
              THEN /\ Finish(price)
                   /\ mc' = [mc EXCEPT !.draws = @ + 1,
                                       !.calls = Append(@, [n |-> sim_num, pos |-> rng, out |-> price])]
              ELSE /\ mc' = [mc EXCEPT !.draws = @ + 1, !.k = @ + 1,
                                       !.prices = Append(@, PyFloat(price.val)),
                                       !.calls = Append(@, [n |-> sim_num, pos |-> rng, out |-> price])]
                   /\ UNCHANGED <<pc, result>>
    /\ UNCHANGED <<op, args, ivVars>>

ConvergenceReturn ==
    /\ pc = "conv_loop" /\ mc.k >= Len(args.n_values)
    /\ Finish([kind |-> "return", val |-> mc.prices, exc |-> "none"])
    /\ UNCHANGED <<op, args, ivVars, mcVars>>

\* ---- mc_greeks: the draw, then the estimators in the order of the code

GreeksDraw ==
    /\ pc = "start" /\ op = "mc_greeks"
    /\ Z' = standard_normal(rng, args.n)
    /\ rng' = rng + args.n
    /\ mc' = [mc EXCEPT !.draws = 1]
    /\ pc' = "mcg_price"
    /\ UNCHANGED <<op, args, result, ivVars>>

GreeksPrice ==
    /\ pc = "mcg_price"
    /\ IF Lower(args.option_type) \in {"call", "put"}
       THEN /\ mc' = [mc EXCEPT !.option_price =
                        DiscountedPayoff(args.S, args.K, args.T, args.r, args.sigma,
                                         Lower(args.option_type), args.q, Z)]
            /\ pc' = "mcg_pathwise"
            /\ UNCHANGED result
       ELSE /\ Finish(Raised("UnboundLocalError"))
            /\ UNCHANGED mc
    /\ UNCHANGED <<op, args, ivVars, rng, Z>>

GreeksPathwise ==
    /\ pc = "mcg_pathwise"
    /\ mc' = [mc EXCEPT !.pathwise =
                PathwiseGreeks(args.S, args.K, args.T, args.r, args.sigma,
                               Lower(args.option_type), args.q, Z)]
    /\ pc' = "mcg_gamma"
    /\ UNCHANGED <<op, args, result, ivVars, rng, Z>>

\* GreeksGamma drawing a fresh sample for the bumped prices
GreeksGammaFreshSample ==
    /\ pc = "mcg_gamma"
    /\ Z' = standard_normal(rng, args.n)
    /\ rng' = rng + args.n
    /\ mc' = [mc EXCEPT !.draws = @ + 1,
                        !.gamma =
                GammaEstimate(args.S, args.K, args.T, args.r, args.sigma,
                              Lower(args.option_type), args.q, Z', args.h,
                              mc.option_price)]
    /\ pc' = "mcg_theta"
    /\ UNCHANGED <<op, args, result, ivVars>>

GreeksGamma ==
    /\ pc = "mcg_gamma"
    /\ mc' = [mc EXCEPT !.gamma =
                GammaEstimate(args.S, args.K, args.T, args.r, args.sigma,
                              Lower(args.option_type), args.q, Z, args.h,
                              mc.option_price)]
    /\ pc' = "mcg_theta"
    /\ UNCHANGED <<op, args, result, ivVars, rng, Z>>

GreeksTheta ==
    /\ pc = "mcg_theta"
    /\ Finish(Returned([delta |-> mc.pathwise.delta,
                        gamma |-> mc.gamma,
                        theta |-> ThetaEstimate(args.S, args.K, args.T, args.r,
                                                args.sigma, Lower(args.option_type),
                                                args.q, Z, args.dt, mc.option_price),
                        vega |-> mc.pathwise.vega,
                        rho |-> mc.pathwise.rho]))
    /\ UNCHANGED <<op, args, ivVars, mcVars>>

\* ---- implied_volatility

\* sigma = 0.3
IvStart ==
    /\ pc = "start" /\ op = "implied_volatility"
    /\ sigma' = SigmaStart
    /\ i' = 0
    /\ pc' = "newton"
    /\ UNCHANGED <<op, args, result, low, high, tolerance_price, hist, mcVars>>

\* NewtonIteration with the vega floor tested before convergence
NewtonIterationFloorFirst ==
    /\ pc = "newton" /\ i < args.max_iter
    /\ \E model_price \in {bs_pricing(args.S, args.K, args.T, args.r, sigma,
                                       args.option_type, args.q)},
          greeks_exc \in {bs_greeks_exc(args.S, args.K, args.T, args.r, sigma,
                                        args.option_type, args.q)},
          vega \in {bs_vega(args.S, args.K, args.T, args.r, sigma, args.q)} :
           IF model_price.kind = "raise" \/ greeks_exc # "none"
           THEN /\ Finish(IF model_price.kind = "raise" THEN model_price
                          ELSE Raised(greeks_exc))
                /\ hist' = [hist EXCEPT !.newton = @ + 1, !.newtonEnd = "raised"]
                /\ UNCHANGED <<sigma, i>>
           ELSE IF Lt[vega, VegaFloor]
           THEN /\ pc' = "fallback"
                /\ hist' = [hist EXCEPT !.newton = @ + 1, !.newtonEnd = "flat",
                              !.minGap = Gap(@, model_price.val, args.market_price),
                              !.lastNewton = sigma]
                /\ UNCHANGED <<result, sigma, i>>
           ELSE IF Converged(model_price.val, args.market_price, args.error_tolerance)
           THEN /\ Finish(Returned(FNum(sigma)))
                /\ hist' = [hist EXCEPT !.newton = @ + 1, !.newtonEnd = "converged",
                              !.minGap = Gap(@, model_price.val, args.market_price)]
                /\ UNCHANGED <<sigma, i>>
           ELSE /\ sigma' = NewtonUpdate(sigma, Sub[model_price.val.v, args.market_price], vega)
                /\ i' = i + 1
                /\ hist' = [hist EXCEPT !.newton = @ + 1, !.divVega = vega,
                              !.minGap = Gap(@, model_price.val, args.market_price)]
                /\ UNCHANGED <<pc, result>>
    /\ UNCHANGED <<op, args, low, high, tolerance_price, mcVars>>

\* one pass of the Newton-Raphson loop body: price and vega at sigma, the
\* convergence test, the vega floor, the update and the clamp
NewtonIteration ==
    /\ pc = "newton" /\ i < args.max_iter
    /\ \E model_price \in {bs_pricing(args.S, args.K, args.T, args.r, sigma,
                                       args.option_type, args.q)},
          greeks_exc \in {bs_greeks_exc(args.S, args.K, args.T, args.r, sigma,
                                        args.option_type, args.q)},
          vega \in {bs_vega(args.S, args.K, args.T, args.r, sigma, args.q)} :
           IF model_price.kind = "raise" \/ greeks_exc # "none"
           THEN /\ Finish(IF model_price.kind = "raise" THEN model_price
                          ELSE Raised(greeks_exc))
                /\ hist' = [hist EXCEPT !.newton = @ + 1, !.newtonEnd = "raised"]
                /\ UNCHANGED <<sigma, i>>
           ELSE IF Converged(model_price.val, args.market_price, args.error_tolerance)
           THEN /\ Finish(Returned(FNum(sigma)))
                /\ hist' = [hist EXCEPT !.newton = @ + 1, !.newtonEnd = "converged",
                              !.minGap = Gap(@, model_price.val, args.market_price)]
                /\ UNCHANGED <<sigma, i>>
           ELSE IF Lt[vega, VegaFloor]
           THEN /\ pc' = "fallback"
                /\ hist' = [hist EXCEPT !.newton = @ + 1, !.newtonEnd = "flat",
                              !.minGap = Gap(@, model_price.val, args.market_price),
                              !.lastNewton = sigma]
                /\ UNCHANGED <<result, sigma, i>>
           ELSE /\ sigma' = NewtonUpdate(sigma, Sub[model_price.val.v, args.market_price], vega)
                /\ i' = i + 1
                /\ hist' = [hist EXCEPT !.newton = @ + 1, !.divVega = vega,
                              !.minGap = Gap(@, model_price.val, args.market_price)]
                /\ UNCHANGED <<pc, result>>
    /\ UNCHANGED <<op, args, low, high, tolerance_price, mcVars>>

\* range(max_iter) is used up
NewtonExhausted ==
    /\ pc = "newton" /\ i >= args.max_iter
    /\ pc' = "fallback"
    /\ hist' = [hist EXCEPT !.newtonEnd = "exhausted", !.lastNewton = sigma]
    /\ UNCHANGED <<op, args, result, sigma, low, high, tolerance_price, i, mcVars>>

\* low = 1e-6; high = 5.0; tolerance_price = ...
BisectionStart ==
    /\ pc = "fallback"
    /\ low' = SigmaMin
    /\ high' = SigmaMax
    /\ tolerance_price' = Threshold(args.error_tolerance, args.market_price)
    /\ i' = 0
    /\ pc' = "bisect"
    /\ UNCHANGED <<op, args, result, sigma, hist, mcVars>>

\* Midpoint as half the width of the interval, low forgotten
MidpointHalfWidth(lo, hi) == DivInt[Sub[hi, lo], 2]

\* mid = (low + high) / 2, at the model's resolution
Midpoint(lo, hi) == DivInt[Add[lo, hi], 2]

\* BisectionIteration as a loop that max_iter does not bound
BisectionIterationUnbounded ==
    /\ pc = "bisect"
    /\ \E mid \in {Midpoint(low, high)} :
       \E price \in {bs_pricing(args.S, args.K, args.T, args.r, mid,
                                args.option_type, args.q)} :
           IF price.kind = "raise"
           THEN /\ Finish(price)
                /\ hist' = [hist EXCEPT !.bisect = @ + 1]
                /\ UNCHANGED <<low, high, i>>
           ELSE IF price.val.k = "num"
                   /\ Lt[Abs[Sub[price.val.v, args.market_price]], tolerance_price]
           THEN /\ Finish(Returned(FNum(mid)))
                /\ hist' = [hist EXCEPT !.bisect = @ + 1,
                              !.minGap = Gap(@, price.val, args.market_price)]
                /\ UNCHANGED <<low, high, i>>
           ELSE /\ IF price.val.k = "num" /\ Lt[args.market_price, price.val.v]
                   THEN high' = mid /\ UNCHANGED low
                   ELSE low' = mid /\ UNCHANGED high
                /\ i' = i + 1
                /\ hist' = [hist EXCEPT !.bisect = @ + 1,
                              !.minGap = Gap(@, price.val, args.market_price)]
                /\ UNCHANGED <<pc, result>>
    /\ UNCHANGED <<op, args, sigma, tolerance_price, mcVars>>

\* one pass of the bisection loop body
BisectionIteration ==
    /\ pc = "bisect" /\ i < args.max_iter
    /\ \E mid \in {Midpoint(low, high)} :
       \E price \in {bs_pricing(args.S, args.K, args.T, args.r, mid,
                                args.option_type, args.q)} :
           IF price.kind = "raise"
           THEN /\ Finish(price)
                /\ hist' = [hist EXCEPT !.bisect = @ + 1]
                /\ UNCHANGED <<low, high, i>>
           ELSE IF price.val.k = "num"
                   /\ Lt[Abs[Sub[price.val.v, args.market_price]], tolerance_price]
           THEN /\ Finish(Returned(FNum(mid)))
                /\ hist' = [hist EXCEPT !.bisect = @ + 1,
                              !.minGap = Gap(@, price.val, args.market_price)]
                /\ UNCHANGED <<low, high, i>>
           ELSE /\ IF price.val.k = "num" /\ Lt[args.market_price, price.val.v]
                   THEN high' = mid /\ UNCHANGED low
                   ELSE low' = mid /\ UNCHANGED high
                /\ i' = i + 1
                /\ hist' = [hist EXCEPT !.bisect = @ + 1,
                              !.minGap = Gap(@, price.val, args.market_price)]
                /\ UNCHANGED <<pc, result>>
    /\ UNCHANGED <<op, args, sigma, tolerance_price, mcVars>>

\* BisectionExhausted returning the upper bound in place of None
BisectionExhaustedSentinel ==
    /\ pc = "bisect" /\ i >= args.max_iter
    /\ Finish(Returned(FNum(high)))
    /\ UNCHANGED <<op, args, ivVars, mcVars>>

\* BisectionExhausted one iteration early
BisectionExhaustedEarly ==
    /\ pc = "bisect" /\ i >= args.max_iter - 1
    /\ Finish(Returned(FNone))
    /\ UNCHANGED <<op, args, ivVars, mcVars>>

\* return None
BisectionExhausted ==
    /\ pc = "bisect" /\ i >= args.max_iter
    /\ Finish(Returned(FNone))
    /\ UNCHANGED <<op, args, ivVars, mcVars>>

\* ------------------------------------------------------------------------
\* The calls the model makes
\* ------------------------------------------------------------------------

\* a max_iter that ends the search early
SmallMaxIter == 2

\* the longest n_values, and the largest path count
MaxPaths == 3

\* the positions the random source may be at when a call starts
MaxRngPos == 2

ValidKinds == {"call", "put"}

Kinds == {"call", "put", "Call", "PUT", "straddle"}

Spot == WInt(100)

Strikes == {WInt(100), WInt(115)}

Rate == Micro(50000)

\* market prices given as such: the driver's 5, and one above the spot
DirectMarkets == {[sigma0 |-> WInt(0), market_price |-> WInt(5)],
                  [sigma0 |-> WInt(0), market_price |-> Add[Spot, WInt(1)]]}

\* market prices the pricer generated from a volatility sigma0, and one
\* just above the price at the upper end of the search domain
GeneratedMarkets(K, T, kind) ==
    {[sigma0 |-> s, market_price |-> BsFormula(Spot, K, T, Rate, s, kind, WInt(0)).v]
        : s \in {Micro(20000), Micro(200000), SigmaMax}}
    \cup {[sigma0 |-> WInt(0),
           market_price |-> Add[BsFormula(Spot, K, T, Rate, SigmaMax, kind, WInt(0)).v,
                                Micro(5000)]]}

IvArgsFor(K, T, kind) ==
    {[S |-> Spot, K |-> K, T |-> T, r |-> Rate, q |-> WInt(0), option_type |-> kind,
      sigma0 |-> m.sigma0, market_price |-> m.market_price,
      error_tolerance |-> e, max_iter |-> mi]
        : m \in DirectMarkets \cup
                (IF ~IsZero[T] /\ Lower(kind) \in ValidKinds
                 THEN GeneratedMarkets(K, T, Lower(kind)) ELSE {}),
          e \in {DefaultTolerance, Micro(1000)},
          mi \in {0, SmallMaxIter, DefaultMaxIter}}

\* a ten-year call and a market price a tenth of a cent above the spot
LongDated ==
    {[S |-> Spot, K |-> Spot, T |-> WInt(10), r |-> Rate, q |-> WInt(0),
      option_type |-> "call", sigma0 |-> WInt(0),
      market_price |-> Add[Spot, Micro(1000)],
      error_tolerance |-> e, max_iter |-> mi]
        : e \in {DefaultTolerance, Micro(1000)},
          mi \in {0, SmallMaxIter, DefaultMaxIter}}

\* T = 0, six months and a year
Terms == {WInt(0), Micro(500000), WInt(1)}

IvArgs ==
    LongDated \cup
    UNION {IvArgsFor(K, T, kind) : K \in Strikes, T \in Terms,
                                   kind \in {"call", "PUT", "straddle"}}

BsArgs ==
    [S : {Spot}, K : Strikes \cup {WInt(90)}, T : Terms,
     r : {WInt(0), Rate}, q : {WInt(0), Micro(20000)},
     sigma : {WInt(0), Micro(200000)}, option_type : Kinds]

McArgs ==
    [S : {Spot}, K : Strikes, T : Terms \ {WInt(0)}, r : {Rate}, q : {WInt(0)},
     sigma : {Micro(200000)}, option_type : Kinds, n : 1..MaxPaths]

McGreeksArgs ==
    [S : {Spot}, K : Strikes, T : (Terms \ {WInt(0)}) \cup {Micro(5000)},
     r : {Rate}, q : {WInt(0)},
     sigma : {Micro(200000)}, option_type : Kinds, n : 1..MaxPaths,
     h : {Micro(10000)}, dt : {Micro(10000)}]

RECURSIVE SeqsUpTo(_, _)
SeqsUpTo(S, n) ==
    IF n = 0 THEN {<<>>}
    ELSE LET shorter == SeqsUpTo(S, n - 1)
         IN  shorter \cup {Append(xs, x) : xs \in shorter, x \in S}

ConvArgs ==
    [S : {Spot}, K : {WInt(115)}, T : {Micro(500000)}, r : {Rate}, q : {WInt(0)},
     sigma : {Micro(200000)}, option_type : {"call", "PUT", "straddle"},
     n_values : SeqsUpTo(1..MaxPaths, MaxPaths)]

ArgsOf(o) ==
    CASE o = "implied_volatility" -> IvArgs
      [] o = "bs_pricing" -> BsArgs
      [] o = "bs_greeks" -> BsArgs
      [] o = "mc_pricing" -> McArgs
      [] o = "mc_greeks" -> McGreeksArgs
      [] o = "mc_convergence" -> ConvArgs

\* the operations that draw from the random source
McOps == {"mc_pricing", "mc_greeks", "mc_convergence"}

Ops == {"implied_volatility", "bs_pricing", "bs_greeks", "mc_pricing",
        "mc_greeks", "mc_convergence"}

Init ==
    /\ op \in Ops
    /\ args \in ArgsOf(op)
    /\ pc = "start"
    /\ result = Pending
    /\ sigma = WInt(0) /\ low = WInt(0) /\ high = WInt(0)
    /\ tolerance_price = WInt(0) /\ i = 0
    /\ hist = NoHist
    /\ rng \in (IF op \in McOps THEN 0..MaxRngPos ELSE {0})
    /\ Z = <<>>
    /\ mc = [NoMc EXCEPT !.pos0 = rng]

Next ==
    \/ CallBsPricing
    \/ CallBsGreeks
    \/ CallMcPricing
    \/ ConvergenceStart
    \/ ConvergenceStep
    \/ ConvergenceReturn
    \/ GreeksDraw
    \/ GreeksPrice
    \/ GreeksPathwise
    \/ GreeksGamma
    \/ GreeksTheta
    \/ IvStart
    \/ NewtonIteration
    \/ NewtonExhausted
    \/ BisectionStart
    \/ BisectionIteration
    \/ BisectionExhausted

Spec == Init /\ [][Next]_vars

\* every call runs on to its outcome: the program is sequential code
FairSpec == Spec /\ WF_vars(Next)

\* ------------------------------------------------------------------------
\* Properties
\* ------------------------------------------------------------------------

IvDone == op = "implied_volatility" /\ pc = "done"

IvReturnedNumber == IvDone /\ result.kind = "return" /\ result.val.k = "num"

IvReturnedNone == IvDone /\ result = Returned(FNone)

\* the pricer is defined on the solver's arguments
IvDefined ==
    /\ op = "implied_volatility"
    /\ ~IsZero[args.T]
    /\ Lower(args.option_type) \in ValidKinds

\* bs_pricing(S, K, T, r, s, option_type, q) on the solver's arguments
PriceAt(s) ==
    bs_pricing(args.S, args.K, args.T, args.r, s, args.option_type, args.q)

\* |bs_pricing(..., s, ...) - market_price| < error_tolerance * max(1, market_price)
WithinTolerance(s) ==
    /\ PriceAt(s).kind = "return"
    /\ PriceAt(s).val.k = "num"
    /\ Lt[Abs[Sub[PriceAt(s).val.v, args.market_price]],
          Mul[args.error_tolerance, Max[WInt(1), args.market_price]]]

\* C1: a volatility that implied_volatility returns, from the Newton-Raphson
\* phase or from the bisection phase, prices to within
\* error_tolerance * max(1, market_price) of the market price.
C1_ReturnedVolatilityPricesWithinTolerance ==
    IvReturnedNumber => WithinTolerance(result.val.v)

\* a volatility returned from the bisection phase after a flat vega ended
\* the Newton phase
C1_Witness ==
    /\ IvReturnedNumber
    /\ hist.newtonEnd = "flat"
    /\ hist.bisect > 3

\* the market price is the model price of a known volatility sigma0 and the
\* solver runs with the default max_iter
RoundTripCall ==
    /\ IvDone
    /\ ~IsZero[args.sigma0]
    /\ args.max_iter = DefaultMaxIter

\* C2 as stated: the solver recovers the volatility sigma0 that generated
\* the price, to within error_tolerance.
C2_RecoversSigmaWithinTolerance ==
    RoundTripCall =>
        /\ result.kind = "return"
        /\ result.val.k = "num"
        /\ Lt[Abs[Sub[result.val.v, args.sigma0]], args.error_tolerance]

\* C2, amended: on a price generated from a volatility of the search domain
\* (T > 0) the solver returns a volatility, not None, whose model price is
\* within error_tolerance * max(1, p) of that price; the volatility itself
\* need not be near the one that generated the price.
C2_RoundTripRecoversPrice ==
    RoundTripCall => (IvReturnedNumber /\ WithinTolerance(result.val.v))

\* a round trip that ends far from the generating volatility
C2_Witness ==
    /\ RoundTripCall
    /\ IvReturnedNumber
    /\ Le[args.error_tolerance, Abs[Sub[result.val.v, args.sigma0]]]

\* the model price at the upper end of the search domain: the price is
\* non-decreasing in sigma, so this is the greatest feasible price
MaxFeasible == PriceAt(SigmaMax).val.v

\* C3 as stated: a market price above every feasible model price makes the
\* solver return None.
C3_AboveMaxFeasibleReturnsNone ==
    (IvDone /\ IvDefined /\ Lt[MaxFeasible, args.market_price]) => IvReturnedNone

\* C3, amended: a market price that exceeds every feasible model price by
\* at least error_tolerance * max(1, market_price) makes the solver return
\* None, never a number.
C3_FarAboveMaxFeasibleReturnsNone ==
    (IvDone /\ IvDefined
        /\ Le[Mul[args.error_tolerance, Max[WInt(1), args.market_price]],
              Sub[args.market_price, MaxFeasible]])
    => IvReturnedNone

\* None for a market price above the spot, after both phases ran
C3_Witness ==
    /\ IvReturnedNone
    /\ IvDefined
    /\ args.market_price = Add[Spot, WInt(1)]
    /\ hist.bisect = DefaultMaxIter

\* an option kind that is neither "call" nor "put" after lower()
InvalidKind == Lower(args.option_type) \notin ValidKinds

\* C4: bs_pricing, bs_greeks, mc_pricing, mc_greeks and implied_volatility,
\* called with an option kind that is neither "call" nor "put", fail with
\* an InvalidArgument error and return no value.
C4_InvalidKindIsInvalidArgument ==
    (pc = "done" /\ InvalidKind
        /\ op \in {"bs_pricing", "bs_greeks", "mc_pricing", "mc_greeks",
                   "implied_volatility"})
    => result = Raised("InvalidArgument")

\* C5: with sigma = 0 or T = 0 and a valid kind, bs_pricing and bs_greeks
\* return finite numbers: no exception, no NaN.
C5_DegenerateInputsGiveFiniteValues ==
    (pc = "done" /\ op \in {"bs_pricing", "bs_greeks"} /\ ~InvalidKind
        /\ (IsZero[args.sigma] \/ IsZero[args.T]))
    => /\ result.kind = "return"
       /\ (op = "bs_pricing" => result.val.k = "num")

\* C6: None is returned only after the Newton phase ended on a flat vega or
\* on max_iter iterations and the bisection phase evaluated max_iter
\* midpoints, no evaluated volatility having met the tolerance; and a
\* number is returned only when the tolerance was met.
C6_NoneOnlyAfterBothPhases ==
    /\ IvReturnedNone =>
          /\ hist.newtonEnd \in {"flat", "exhausted"}
          /\ (hist.newtonEnd = "exhausted" => hist.newton = args.max_iter)
          /\ hist.bisect = args.max_iter
          /\ hist.minGap = WInt(-1)
                \/ Le[Mul[args.error_tolerance, Max[WInt(1), args.market_price]],
                      hist.minGap]
    /\ IvReturnedNumber =>
          /\ ~IsNeg[hist.minGap]
          /\ Lt[hist.minGap, Mul[args.error_tolerance, Max[WInt(1), args.market_price]]]

\* None after a flat vega and a full bisection phase
C6_Witness ==
    /\ IvReturnedNone
    /\ hist.newtonEnd = "flat"
    /\ hist.newton >= 2
    /\ hist.bisect = DefaultMaxIter

\* C7: implied_volatility runs at most max_iter Newton iterations and at
\* most max_iter bisection iterations, and where the pricer is defined it
\* ends by returning a volatility or None.
C7_Terminates ==
    /\ [](op = "implied_volatility" =>
            /\ hist.newton <= args.max_iter
            /\ hist.bisect <= args.max_iter)
    /\ (IvDefined => <>(pc = "done" /\ result.kind = "return"))

\* a search that used every iteration of both phases
C7_Witness ==
    /\ IvDone /\ IvDefined
    /\ args.max_iter = DefaultMaxIter
    /\ hist.newton = args.max_iter
    /\ hist.bisect = args.max_iter

\* the prices of one mc_pricing call per path count, in the order of nv,
\* the source at pos when the first call draws
RECURSIVE SeriesFrom(_, _)
SeriesFrom(nv, pos) ==
    IF nv = <<>> THEN <<>>
    ELSE <<PyFloat(mc_pricing(args.S, args.K, args.T, args.r, args.sigma,
                              args.option_type, args.q,
                              standard_normal(pos, Head(nv))).val)>>
         \o SeriesFrom(Tail(nv), pos + Head(nv))

ConvReturned == op = "mc_convergence" /\ pc = "done" /\ result.kind = "return"

\* C8 as stated: mc_convergence returns the (path count, price) pairs of
\* n_values, in order.
C8_ReturnsPairs ==
    ConvReturned =>
        /\ Len(result.val) = Len(args.n_values)
        /\ \A j \in 1..Len(args.n_values) :
              result.val[j] = [n |-> args.n_values[j],
                               price |-> SeriesFrom(args.n_values, mc.pos0)[j]]

\* C8, amended: mc_convergence returns the prices alone, one per element of
\* n_values and in its order, the j-th from the one mc_pricing call made
\* with the j-th path count; the path counts are not part of the result.
C8_ReturnsPricesInInputOrder ==
    ConvReturned =>
        /\ Len(result.val) = Len(args.n_values)
        /\ result.val = SeriesFrom(args.n_values, mc.pos0)
        /\ Len(mc.calls) = Len(args.n_values)
        /\ \A j \in 1..Len(args.n_values) :
              /\ mc.calls[j].n = args.n_values[j]
              /\ result.val[j] = PyFloat(mc.calls[j].out.val)

\* a series of three prices for three different path counts
C8_Witness ==
    /\ ConvReturned
    /\ args.n_values = <<1, 2, 3>>
    /\ Len(result.val) = 3
    /\ result.val[1] # result.val[2]

\* the sample an mc_greeks call draws when it starts
FirstSample == standard_normal(mc.pos0, args.n)

\* the Greeks of mc_greeks, every estimator computed from the sample sample
GreeksFrom(sample) ==
    LET kind == Lower(args.option_type)
        base == DiscountedPayoff(args.S, args.K, args.T, args.r, args.sigma,
                                 kind, args.q, sample)
        pw == PathwiseGreeks(args.S, args.K, args.T, args.r, args.sigma,
                             kind, args.q, sample)
    IN  [delta |-> pw.delta,
         gamma |-> GammaEstimate(args.S, args.K, args.T, args.r, args.sigma,
                                 kind, args.q, sample, args.h, base),
         theta |-> ThetaEstimate(args.S, args.K, args.T, args.r, args.sigma,
                                 kind, args.q, sample, args.dt, base),
         vega |-> pw.vega,
         rho |-> pw.rho]

\* C9: an mc_greeks call draws once, n variates, and every estimator it
\* returns is computed from that one sample; no draw happens in between.
C9_OneSampleForEveryEstimator ==
    (op = "mc_greeks" /\ pc # "start") =>
        /\ mc.draws = 1
        /\ rng = mc.pos0 + args.n
        /\ Z = FirstSample
        /\ (pc = "done" /\ result.kind = "return")
              => result.val = GreeksFrom(FirstSample)

\* Greeks returned from a sample of several variates, gamma among them
C9_Witness ==
    /\ op = "mc_greeks" /\ pc = "done" /\ result.kind = "return"
    /\ args.n = MaxPaths
    /\ result.val.delta # WInt(0)

\* the Newton loop body runs and neither the pricer nor the Greeks raise
NewtonBody ==
    /\ op = "implied_volatility" /\ pc = "newton" /\ i < args.max_iter
    /\ PriceAt(sigma).kind = "return"
    /\ bs_greeks_exc(args.S, args.K, args.T, args.r, sigma,
                     args.option_type, args.q) = "none"

VegaAt(s) == bs_vega(args.S, args.K, args.T, args.r, s, args.q)

\* C10: in a Newton iteration the convergence test comes first; failing
\* it, a vega below the floor ends the phase with sigma as it was, nothing
\* divided and no error, and otherwise the division is by a vega at or
\* above the floor; a used-up max_iter ends the phase the same way; the
\* bisection then starts from low = 1e-6, high = 5.0.
C10_NewtonFallsThroughToBisection ==
    [][/\ (NewtonBody /\ WithinTolerance(sigma))
            => (pc' = "done" /\ result' = Returned(FNum(sigma)))
       /\ (NewtonBody /\ ~WithinTolerance(sigma) /\ Lt[VegaAt(sigma), VegaFloor])
            => /\ pc' = "fallback"
               /\ sigma' = sigma
               /\ result' = Pending
               /\ hist'.divVega = hist.divVega
       /\ (NewtonBody /\ ~WithinTolerance(sigma) /\ Le[VegaFloor, VegaAt(sigma)])
            => /\ pc' = "newton"
               /\ hist'.divVega = VegaAt(sigma)
       /\ (op = "implied_volatility" /\ pc = "newton" /\ i >= args.max_iter)
            => /\ pc' = "fallback"
               /\ sigma' = sigma
               /\ result' = Pending
       /\ pc = "fallback"
            => /\ pc' = "bisect"
               /\ low' = SigmaMin
               /\ high' = SigmaMax
               /\ i' = 0
               /\ result' = Pending
      ]_vars

\* the bisection about to start on the full interval after a flat vega at
\* the lower clamp
C10_Witness ==
    /\ pc = "bisect" /\ i = 0
    /\ hist.newtonEnd = "flat"
    /\ hist.lastNewton = SigmaMin
    /\ low = SigmaMin /\ high = SigmaMax

\* s lies in the search domain [1e-6, 5.0]
SearchDomain(s) == Le[SigmaMin, s] /\ Le[s, SigmaMax]

\* the bisection loop body is about to evaluate the pricer at the midpoint
BisectionBody == op = "implied_volatility" /\ pc = "bisect" /\ i < args.max_iter

\* C11: every volatility the pricer is evaluated at, and every volatility
\* returned, lies in [1e-6, 5.0]: the Newton iterate starts at 0.3 and stays
\* in the domain after every update, and in the bisection
\* 1e-6 <= low <= mid <= high <= 5.0 holds at every iteration, each
\* iteration that does not converge setting exactly one bound to mid,
\* high when the price at mid is above market_price and low otherwise.
C11_SearchDomainInvariant ==
    /\ [](op = "implied_volatility" =>
            /\ (pc = "newton" => SearchDomain(sigma))
            /\ (pc = "bisect" =>
                    /\ Le[SigmaMin, low]
                    /\ Le[low, Midpoint(low, high)]
                    /\ Le[Midpoint(low, high), high]
                    /\ Le[high, SigmaMax])
            /\ (IvReturnedNumber => SearchDomain(result.val.v)))
    /\ [][/\ (op = "implied_volatility" /\ pc = "start")
               => sigma' = SigmaStart
          /\ (NewtonBody /\ pc' = "done" /\ result'.kind = "return")
               => result'.val = FNum(sigma)
          /\ (BisectionBody /\ pc' = "done" /\ result'.kind = "return")
               => result'.val = FNum(Midpoint(low, high))
          /\ (BisectionBody /\ pc' = "bisect")
               => IF PriceAt(Midpoint(low, high)).val.k = "num"
                     /\ Lt[args.market_price, PriceAt(Midpoint(low, high)).val.v]
                  THEN high' = Midpoint(low, high) /\ low' = low
                  ELSE low' = Midpoint(low, high) /\ high' = high
         ]_vars

\* a bisection that has moved both bounds inside the domain, after a Newton
\* phase that the clamp held at the lower end of the domain
C11_Witness ==
    /\ op = "implied_volatility" /\ pc = "bisect"
    /\ hist.lastNewton = SigmaMin
    /\ Lt[SigmaMin, low] /\ Lt[high, SigmaMax]
    /\ Lt[low, high]
====
